---------------------------- MODULE Spec2Model ----------------------------
(***************************************************************************)
(* kpm publish path: registry coordinate parsing (pkg/opt/opt.go), the     *)
(* push pipeline (pkg/cmd/cmd_push.go) and the package cache lock as it is *)
(* exercised by pkg/settings/settings_test.go.                             *)
(*                                                                         *)
(* Go strings are modelled as sequences of one-character strings, so that  *)
(* net/url parsing, strings.Split and URL formatting are computed          *)
(* character by character.  The alphabet is lower-case letters, digits and *)
(* the punctuation  - . + _ : /  ; the characters  ? # % @ [ ]  and        *)
(* control bytes are outside the model.                                    *)
(***************************************************************************)
EXTENDS Naturals, Sequences, FiniteSets

VARIABLES
    \* process environment and the process-wide settings instance
    env, kpm_settings,
    \* one call of an opt.go parsing function: its arguments and its result
    in_str, in_tag, op, res,
    \* TestPackageCacheLock: the two goroutines, the shared list, the lock
    gpc, gi, gread, gotlist, lockHolders, wg, mainpc, verdict,
    \* one `kpm push` run per element of Runs
    pc, args, kclPkg, tarPath, ociOpts, localErr, ret, disk, pushed,
    reports, hist

envVars   == <<env, kpm_settings>>
parseVars == <<in_str, in_tag, op, res>>
lockVars  == <<gpc, gi, gread, gotlist, wg, mainpc, verdict>>
pushVars  == <<pc, args, kclPkg, tarPath, ociOpts, localErr, ret, disk,
               pushed, reports, hist>>
vars      == <<envVars, parseVars, lockVars, lockHolders, pushVars>>

---------------------------------------------------------------------------
(* Character strings                                                       *)

Letters == {"a", "b", "c", "d", "e", "f", "g", "h", "i", "j", "k", "l", "m",
            "n", "o", "p", "q", "r", "s", "t", "u", "v", "w", "x", "y", "z"}
Digits  == {"0", "1", "2", "3", "4", "5", "6", "7", "8", "9"}

EmptyStr == << >>

S_oci       == <<"o", "c", "i">>
S_ghcr_io   == <<"g", "h", "c", "r", ".", "i", "o">>
S_kcl_lang  == <<"k", "c", "l", "-", "l", "a", "n", "g">>
S_test_reg  == <<"t", "e", "s", "t", "_", "r", "e", "g">>
S_test_repo == <<"t", "e", "s", "t", "_", "r", "e", "p", "o">>
S_mypkg     == <<"m", "y", "p", "k", "g">>
S_k         == <<"k">>
S_v1        == <<"v", "1">>
S_v2        == <<"v", "2">>
S_v1_0_0    == <<"v", "1", ".", "0", ".", "0">>
S_path_example == <<"/", "k", "c", "l", "-", "l", "a", "n", "g", "/",
                    "m", "y", "p", "k", "g">>
U_oci_example == <<"o", "c", "i", ":", "/", "/", "g", "h", "c", "r", ".",
                   "i", "o", "/", "k", "c", "l", "-", "l", "a", "n", "g",
                   "/", "m", "y", "p", "k", "g">>
U_ref_tagged  == <<"m", "y", "p", "k", "g", ":", "v", "1", ".", "0", ".", "0">>
U_ref_three   == <<"a", ":", "b", ":", "c">>
U_http        == <<"h", "t", "t", "p", ":", "/", "/", "g", "h", "c", "r", ".",
                   "i", "o", "/", "m", "y", "p", "k", "g">>
U_oci_colon_tag == <<"o", "c", "i", ":", "v", "1">>

\* strings.HasPrefix / strings.HasSuffix
HasPrefix(s, p) == Len(s) >= Len(p) /\ SubSeq(s, 1, Len(p)) = p
HasSuffix(s, p) ==
    Len(s) >= Len(p) /\ SubSeq(s, Len(s) - Len(p) + 1, Len(s)) = p

\* strings.TrimPrefix / strings.TrimSuffix
TrimPrefix(s, p) == IF HasPrefix(s, p) THEN SubSeq(s, Len(p) + 1, Len(s)) ELSE s
TrimSuffix(s, p) == IF HasSuffix(s, p) THEN SubSeq(s, 1, Len(s) - Len(p)) ELSE s

\* strings.Index / strings.LastIndex for a one-byte separator, 1-based;
\* 0 when the byte does not occur (Go's -1).
Positions(s, c) == {i \in 1..Len(s) : s[i] = c}
Min(S) == CHOOSE x \in S : \A y \in S : x <= y
Max(S) == CHOOSE x \in S : \A y \in S : x >= y
MinOrZero(S) == IF S = {} THEN 0 ELSE Min(S)
MaxOrZero(S) == IF S = {} THEN 0 ELSE Max(S)
Index(s, c)     == MinOrZero(Positions(s, c))
LastIndex(s, c) == MaxOrZero(Positions(s, c))
Contains(s, c)  == Positions(s, c) # {}

\* strings.Split(s, sep) for a one-byte separator: always at least one
\* segment, n occurrences of sep give n+1 segments.
RECURSIVE Split(_, _)
SplitAt(s, c, i) ==
    IF i = 0 THEN <<s>>
    ELSE <<SubSeq(s, 1, i - 1)>> \o Split(SubSeq(s, i + 1, Len(s)), c)
Split(s, c) == SplitAt(s, c, Index(s, c))

---------------------------------------------------------------------------
(* net/url                                                                 *)

\* url.getScheme: the bytes that may continue a scheme after its first.
SchemeExtra == Digits \cup {"+", "-", "."}

\* The index at which getScheme's loop returns: the first byte that is not
\* a letter and not (beyond index 0) a digit or one of + - . ; 0 when the
\* loop runs off the end.
SchemeStop(s) ==
    MinOrZero({i \in 1..Len(s) :
                  /\ s[i] \notin Letters
                  /\ ~(i > 1 /\ s[i] \in SchemeExtra)})

\* url.getScheme(rawURL) (scheme, path, err), with i the index its loop
\* returns at.
getSchemeAt(s, i) ==
    IF i # 0 /\ s[i] = ":"
    THEN IF i = 1
         THEN [err |-> TRUE, scheme |-> EmptyStr, rest |-> EmptyStr]
         ELSE [err |-> FALSE, scheme |-> SubSeq(s, 1, i - 1),
               rest |-> SubSeq(s, i + 1, Len(s))]
    ELSE [err |-> FALSE, scheme |-> EmptyStr, rest |-> s]

getScheme(s) == getSchemeAt(s, SchemeStop(s))

\* url.validOptionalPort(port): "" or ":" followed by digits only.
validOptionalPort(port) ==
    \/ port = EmptyStr
    \/ /\ port[1] = ":"
       /\ \A i \in 2..Len(port) : port[i] \in Digits

\* url.parseHost(host): the port check on the text from the last colon on,
\* i being the index of that colon (0 when there is none).
parseHostOkAt(host, i) ==
    i = 0 \/ validOptionalPort(SubSeq(host, i, Len(host)))

parseHostOk(host) == parseHostOkAt(host, LastIndex(host, ":"))

UrlError == [err |-> TRUE, Scheme |-> EmptyStr, Opaque |-> EmptyStr,
             Host |-> EmptyStr, Path |-> EmptyStr]

\* The URL of scheme, authority and path, when the authority is a valid host.
UrlOfAuthority(scheme, auth, path) ==
    IF parseHostOk(auth)
    THEN [err |-> FALSE, Scheme |-> scheme, Opaque |-> EmptyStr,
          Host |-> auth, Path |-> path]
    ELSE UrlError

\* url.parse after "//": authority is the text up to the first "/" (at
\* index i of auth0, 0 when there is none), the path is the rest.
UrlAfterSlashes(scheme, auth0, i) ==
    IF i = 0 THEN UrlOfAuthority(scheme, auth0, EmptyStr)
    ELSE UrlOfAuthority(scheme, SubSeq(auth0, 1, i - 1),
                        SubSeq(auth0, i, Len(auth0)))

\* url.parse after getScheme returned g.
UrlParseRest(g) ==
    IF g.err THEN UrlError
    ELSE IF ~HasPrefix(g.rest, <<"/">>) /\ g.scheme # EmptyStr
    THEN \* a rootless path after a scheme is opaque
         [err |-> FALSE, Scheme |-> g.scheme, Opaque |-> g.rest,
          Host |-> EmptyStr, Path |-> EmptyStr]
    ELSE IF /\ ~HasPrefix(g.rest, <<"/">>)
            /\ Contains(Split(g.rest, "/")[1], ":")
    THEN \* first path segment in URL cannot contain colon
         UrlError
    ELSE IF /\ (g.scheme # EmptyStr \/ ~HasPrefix(g.rest, <<"/", "/", "/">>))
            /\ HasPrefix(g.rest, <<"/", "/">>)
    THEN UrlAfterSlashes(g.scheme, SubSeq(g.rest, 3, Len(g.rest)),
                         Index(SubSeq(g.rest, 3, Len(g.rest)), "/"))
    ELSE [err |-> FALSE, Scheme |-> g.scheme, Opaque |-> EmptyStr,
          Host |-> EmptyStr, Path |-> g.rest]

\* url.Parse(rawURL), on the model's alphabet (no query, fragment, userinfo
\* or percent-escape can occur).
UrlParse(raw) == UrlParseRest(getScheme(raw))

\* (*url.URL).String() for a URL built from Scheme, Host and Path only, as
\* genDefaultOciUrlForKclPkg builds it: "scheme:" then "//" and the host
\* when host or path is non-empty, then the path, with a "/" put before a
\* path that does not start with one when the host is non-empty.
UrlString(scheme, host, path) ==
    (IF scheme # EmptyStr THEN scheme \o <<":">> ELSE EmptyStr)
    \o (IF (scheme # EmptyStr \/ host # EmptyStr)
           /\ (host # EmptyStr \/ path # EmptyStr)
        THEN <<"/", "/">> \o host ELSE EmptyStr)
    \o (IF path # EmptyStr /\ path[1] # "/" /\ host # EmptyStr
        THEN <<"/">> ELSE EmptyStr)
    \o path

---------------------------------------------------------------------------
(* Settings and environment                                                *)

\* settings.DefaultKpmConf(): the persisted defaults.
DefaultKpmConf ==
    [DefaultOciRegistry |-> S_ghcr_io, DefaultOciRepo |-> S_kcl_lang,
     DefaultOciPlainHttp |-> FALSE, ErrorEvent |-> "nil",
     ErrorDetail |-> << >>]

\* The accepted tokens of the OCI_REG_PLAIN_HTTP override.
PlainHttpOn  == "on"
PlainHttpOff == "off"

\* The KEY=VALUE pair the diagnostic of environment e names: the
\* OCI_REG_PLAIN_HTTP override when it is set to no accepted token.
InvalidPlainHttp(e) ==
    e.OCI_REG_PLAIN_HTTP \notin {"", PlainHttpOn, PlainHttpOff}
OffendingPair(e) ==
    IF InvalidPlainHttp(e)
    THEN <<"OCI_REG_PLAIN_HTTP", e.OCI_REG_PLAIN_HTTP>> ELSE << >>

\* A GetSettings that takes an invalid OCI_REG_PLAIN_HTTP as "off".
GetSettings_InvalidIsOff(s, e) ==
    [DefaultOciRegistry |->
        IF e.KPM_REG # EmptyStr THEN e.KPM_REG
        ELSE DefaultKpmConf.DefaultOciRegistry,
     DefaultOciRepo |->
        IF e.KPM_REPO # EmptyStr THEN e.KPM_REPO
        ELSE DefaultKpmConf.DefaultOciRepo,
     DefaultOciPlainHttp |->
        IF e.OCI_REG_PLAIN_HTTP = PlainHttpOn THEN TRUE
        ELSE IF e.OCI_REG_PLAIN_HTTP = "" THEN s.DefaultOciPlainHttp
        ELSE FALSE,
     ErrorEvent |-> IF InvalidPlainHttp(e) THEN "UnknownEnv" ELSE "nil",
     ErrorDetail |-> OffendingPair(e)]

\* A GetSettings that stops reading the environment at an invalid
\* OCI_REG_PLAIN_HTTP, before the registry and the repository.
GetSettings_InvalidStopsReading(s, e) ==
    [DefaultOciRegistry |->
        IF InvalidPlainHttp(e) THEN s.DefaultOciRegistry
        ELSE IF e.KPM_REG # EmptyStr THEN e.KPM_REG
        ELSE DefaultKpmConf.DefaultOciRegistry,
     DefaultOciRepo |->
        IF InvalidPlainHttp(e) THEN s.DefaultOciRepo
        ELSE IF e.KPM_REPO # EmptyStr THEN e.KPM_REPO
        ELSE DefaultKpmConf.DefaultOciRepo,
     DefaultOciPlainHttp |->
        IF e.OCI_REG_PLAIN_HTTP = PlainHttpOn THEN TRUE
        ELSE IF e.OCI_REG_PLAIN_HTTP = PlainHttpOff THEN FALSE
        ELSE s.DefaultOciPlainHttp,
     ErrorEvent |-> IF InvalidPlainHttp(e) THEN "UnknownEnv" ELSE "nil",
     ErrorDetail |-> OffendingPair(e)]

\* settings.GetSettings(): the process-wide instance s re-layered on the
\* environment e.  An unset variable is the empty string.  An invalid
\* OCI_REG_PLAIN_HTTP leaves the flag at its prior value and sets the
\* diagnostic; a clean load clears it.
GetSettings(s, e) ==
    [DefaultOciRegistry |->
        IF e.KPM_REG # EmptyStr THEN e.KPM_REG
        ELSE DefaultKpmConf.DefaultOciRegistry,
     DefaultOciRepo |->
        IF e.KPM_REPO # EmptyStr THEN e.KPM_REPO
        ELSE DefaultKpmConf.DefaultOciRepo,
     DefaultOciPlainHttp |->
        IF e.OCI_REG_PLAIN_HTTP = PlainHttpOn THEN TRUE
        ELSE IF e.OCI_REG_PLAIN_HTTP = PlainHttpOff THEN FALSE
        ELSE s.DefaultOciPlainHttp,
     ErrorEvent |->
        IF e.OCI_REG_PLAIN_HTTP \in {"", PlainHttpOn, PlainHttpOff}
        THEN "nil" ELSE "UnknownEnv",
     ErrorDetail |-> OffendingPair(e)]

\* The environments considered: each override unset or set as in
\* TestSettingEnv.
Envs ==
    [KPM_REG : {EmptyStr, S_test_reg},
     KPM_REPO : {EmptyStr, S_test_repo},
     OCI_REG_PLAIN_HTTP : {"", "on", "off", "true"}]

---------------------------------------------------------------------------
(* pkg/opt/opt.go                                                          *)

\* A nil *OciOptions.
NilOpts == [isNil |-> TRUE, Reg |-> EmptyStr, Repo |-> EmptyStr,
            Tag |-> EmptyStr]

\* &OciOptions{Reg: reg, Repo: repo, Tag: tag}
OciOptions(reg, repo, tag) ==
    [isNil |-> FALSE, Reg |-> reg, Repo |-> repo, Tag |-> tag]

OCI_SEPARATOR == ":"

\* The result of ParseOciUrl for the parsed URL u, scheme not compared.
OciOptionsOfUrl_AnyScheme(u) ==
    IF u.err THEN [opts |-> NilOpts, err |-> "IsNotUrl"]
    ELSE [opts |-> OciOptions(u.Host, u.Path, EmptyStr), err |-> "nil"]

\* ParseOciUrl with the scheme comparison left out.
ParseOciUrl_AnyScheme(ociUrl) == OciOptionsOfUrl_AnyScheme(UrlParse(ociUrl))

\* ParseOciUrl after u, err := url.Parse(ociUrl).
OciOptionsOfUrl(u) ==
    IF u.err THEN [opts |-> NilOpts, err |-> "IsNotUrl"]
    ELSE IF u.Scheme # S_oci
    THEN [opts |-> NilOpts, err |-> "UrlSchemeNotOci"]
    ELSE [opts |-> OciOptions(u.Host, u.Path, EmptyStr), err |-> "nil"]

\* ParseOciUrl(ociUrl) (*OciOptions, *reporter.KpmEvent)
ParseOciUrl(ociUrl) == OciOptionsOfUrl(UrlParse(ociUrl))

\* ParseOciRef after the split, with the two-segment test written as
\* "at least two".
OciOptionsOfSegments_AtLeastTwo(oci_address, settings) ==
    IF settings.ErrorEvent # "nil"
    THEN [opts |-> NilOpts, err |-> settings.ErrorEvent]
    ELSE IF Len(oci_address) = 1
    THEN [opts |-> OciOptions(settings.DefaultOciRegistry,
                              oci_address[1], EmptyStr),
          err |-> "nil"]
    ELSE [opts |-> OciOptions(settings.DefaultOciRegistry,
                              oci_address[1], oci_address[2]),
          err |-> "nil"]

ParseOciRef_AtLeastTwo(ociRef, settings) ==
    OciOptionsOfSegments_AtLeastTwo(Split(ociRef, OCI_SEPARATOR), settings)

\* ParseOciRef after oci_address := strings.Split(ociRef, OCI_SEPARATOR).
OciOptionsOfSegments(oci_address, settings) ==
    IF settings.ErrorEvent # "nil"
    THEN [opts |-> NilOpts, err |-> settings.ErrorEvent]
    ELSE IF Len(oci_address) = 1
    THEN [opts |-> OciOptions(settings.DefaultOciRegistry,
                              oci_address[1], EmptyStr),
          err |-> "nil"]
    ELSE IF Len(oci_address) = 2
    THEN [opts |-> OciOptions(settings.DefaultOciRegistry,
                              oci_address[1], oci_address[2]),
          err |-> "nil"]
    ELSE [opts |-> NilOpts, err |-> "IsNotRef"]

\* ParseOciRef(ociRef) (*OciOptions, error), with settings the result of
\* the settings.GetSettings() call it makes.
ParseOciRef(ociRef, settings) ==
    OciOptionsOfSegments(Split(ociRef, OCI_SEPARATOR), settings)

\* ociOpt.Tag = tag on the result r of ParseOciUrl, or its error.
WithTag(r, tag) ==
    IF r.err # "nil" THEN [opts |-> NilOpts, err |-> r.err]
    ELSE [opts |-> [r.opts EXCEPT !.Tag = tag], err |-> "nil"]

\* ParseOciOptionFromOciUrl(url, tag) (*OciOptions, *reporter.KpmEvent)
ParseOciOptionFromOciUrl(url, tag) == WithTag(ParseOciUrl(url), tag)

\* The branch of ParseOciOptionFromString taken when the input is no oci
\* URL: the result ref of ParseOciRef, and the two reporter.Report lines
\* (warned) about the tag argument, which is not used.
OciOptionsOfRef(ref, tag) ==
    IF ref.err # "nil"
    THEN [opts |-> NilOpts, err |-> ref.err, warned |-> FALSE]
    ELSE [opts |-> ref.opts, err |-> "nil", warned |-> (Len(tag) # 0)]

\* ParseOciOptionFromString after ociOpt, event := ParseOciUrl(oci).
OciOptionsOfString(r, oci, tag, settings) ==
    IF r.err \in {"IsNotUrl", "UrlSchemeNotOci"}
    THEN OciOptionsOfRef(ParseOciRef(oci, settings), tag)
    ELSE [opts |-> [r.opts EXCEPT !.Tag = tag], err |-> "nil",
          warned |-> FALSE]

\* ParseOciOptionFromString(oci, tag) (*OciOptions, error), with settings
\* the result of the settings.GetSettings() call ParseOciRef makes.
ParseOciOptionFromString(oci, tag, settings) ==
    OciOptionsOfString(ParseOciUrl(oci), oci, tag, settings)

---------------------------------------------------------------------------
(* Calls of the opt.go parsing functions on bounded inputs                 *)

\* The inputs are all concatenations of at most MaxTokens tokens, together
\* with the strings the documentation and the tests use.
MaxTokens == 4

Tokens == {S_oci, <<"a">>, <<"1">>, <<":">>, <<"/">>, <<"/", "/">>, <<"_">>}

RECURSIVE Flatten(_)
Flatten(ts) == IF ts = << >> THEN EmptyStr ELSE Head(ts) \o Flatten(Tail(ts))

ExampleInputs ==
    {U_oci_example, U_ref_tagged, U_ref_three, U_http, U_oci_colon_tag,
     S_mypkg}

Inputs ==
    {Flatten(ts) : ts \in UNION {[1..n -> Tokens] : n \in 0..MaxTokens}}
    \cup ExampleInputs

TagArgs == {EmptyStr, S_v2}

\* Environments of the parsing calls: clean, overridden, and with the
\* invalid OCI_REG_PLAIN_HTTP=true of TestSettingEnv.
ParseEnvs ==
    {[KPM_REG |-> EmptyStr, KPM_REPO |-> EmptyStr, OCI_REG_PLAIN_HTTP |-> ""],
     [KPM_REG |-> S_test_reg, KPM_REPO |-> S_test_repo,
      OCI_REG_PLAIN_HTTP |-> "on"],
     [KPM_REG |-> EmptyStr, KPM_REPO |-> EmptyStr,
      OCI_REG_PLAIN_HTTP |-> "true"]}

\* A result of a function that reports nothing.
Unwarned(r) == [opts |-> r.opts, err |-> r.err, warned |-> FALSE]

NoResult == [opts |-> NilOpts, err |-> "nil", warned |-> FALSE]

\* State of the lock test and of the push runs while neither runs.
LockIdle ==
    /\ gpc = [g \in {1, 2} |-> "unborn"]
    /\ gi = [g \in {1, 2} |-> 0]
    /\ gread = [g \in {1, 2} |-> << >>]
    /\ gotlist = << >>
    /\ wg = 0
    /\ mainpc = "begin"
    /\ verdict = "none"

PushIdle ==
    /\ pc = << >>
    /\ args = << >>
    /\ kclPkg = << >>
    /\ tarPath = << >>
    /\ ociOpts = << >>
    /\ localErr = << >>
    /\ ret = << >>
    /\ disk = {}
    /\ pushed = << >>
    /\ reports = << >>
    /\ hist = << >>

InitParse ==
    /\ env \in ParseEnvs
    /\ kpm_settings = GetSettings(DefaultKpmConf, env)
    /\ in_str \in Inputs
    /\ in_tag \in TagArgs
    /\ op = "none"
    /\ res = NoResult
    /\ lockHolders = {}
    /\ LockIdle
    /\ PushIdle

CallParseOciUrl ==
    /\ op = "none"
    /\ op' = "ParseOciUrl"
    /\ res' = Unwarned(ParseOciUrl(in_str))
    /\ UNCHANGED <<envVars, in_str, in_tag, lockVars, lockHolders, pushVars>>

CallParseOciRef ==
    /\ op = "none"
    /\ op' = "ParseOciRef"
    /\ kpm_settings' = GetSettings(kpm_settings, env)
    /\ res' = Unwarned(ParseOciRef(in_str, GetSettings(kpm_settings, env)))
    /\ UNCHANGED <<env, in_str, in_tag, lockVars, lockHolders, pushVars>>

CallParseOciOptionFromOciUrl ==
    /\ op = "none"
    /\ op' = "ParseOciOptionFromOciUrl"
    /\ res' = Unwarned(ParseOciOptionFromOciUrl(in_str, in_tag))
    /\ UNCHANGED <<envVars, in_str, in_tag, lockVars, lockHolders, pushVars>>

CallParseOciOptionFromString ==
    /\ op = "none"
    /\ op' = "ParseOciOptionFromString"
    /\ kpm_settings' = GetSettings(kpm_settings, env)
    /\ res' = ParseOciOptionFromString(in_str, in_tag,
                                       GetSettings(kpm_settings, env))
    /\ UNCHANGED <<env, in_str, in_tag, lockVars, lockHolders, pushVars>>

NextParse ==
    \/ CallParseOciUrl
    \/ CallParseOciRef
    \/ CallParseOciOptionFromOciUrl
    \/ CallParseOciOptionFromString

SpecParse == InitParse /\ [][NextParse]_vars


---------------------------------------------------------------------------
(* The package cache lock and TestPackageCacheLock                         *)

\* Settings.AcquirePackageCacheLock() returns to caller h only while nobody
\* holds the lock (it blocks otherwise); h is then the holder.
CanAcquirePackageCacheLock(h) == lockHolders = {}
AcquirePackageCacheLock(h) == lockHolders \cup {h}

\* Settings.ReleasePackageCacheLock() by holder h.
ReleasePackageCacheLock(h) == lockHolders \ {h}

Goroutines == {1, 2}

\* The number of appends of each goroutine.
N_APPENDS == 10

\* fmt.Sprintf("goroutine %d: %d", g, i)
Entry(g, i) == <<g, i>>

\* The two expected lists of the test.
EntriesOf(g) == [i \in 1..N_APPENDS |-> Entry(g, i - 1)]
goroutine_1_first_list == EntriesOf(1) \o EntriesOf(2)
goroutine_2_first_list == EntriesOf(2) \o EntriesOf(1)

CleanEnv ==
    [KPM_REG |-> EmptyStr, KPM_REPO |-> EmptyStr, OCI_REG_PLAIN_HTTP |-> ""]

ParseIdle ==
    /\ in_str = EmptyStr
    /\ in_tag = EmptyStr
    /\ op = "none"
    /\ res = NoResult

InitLock ==
    /\ env = CleanEnv
    /\ kpm_settings = GetSettings(DefaultKpmConf, env)
    /\ lockHolders = {}
    /\ LockIdle
    /\ ParseIdle
    /\ PushIdle

\* wg.Add(2)
MainAdd ==
    /\ mainpc = "begin"
    /\ wg' = 2
    /\ mainpc' = "go1"
    /\ UNCHANGED <<gpc, gi, gread, gotlist, verdict, lockHolders>>
    /\ UNCHANGED <<envVars, parseVars, pushVars>>

\* go func() { ... }() for goroutine g
MainGo(g) ==
    /\ mainpc = IF g = 1 THEN "go1" ELSE "go2"
    /\ gpc' = [gpc EXCEPT ![g] = "start"]
    /\ mainpc' = IF g = 1 THEN "go2" ELSE "wait"
    /\ UNCHANGED <<gi, gread, gotlist, wg, verdict, lockHolders>>
    /\ UNCHANGED <<envVars, parseVars, pushVars>>

\* A goroutine that enters its loop without taking the lock.
G_Acquire_NoLock(g) ==
    /\ gpc[g] = "start"
    /\ gpc' = [gpc EXCEPT ![g] = "loop"]
    /\ gi' = [gi EXCEPT ![g] = 0]
    /\ UNCHANGED <<gread, gotlist, wg, mainpc, verdict, lockHolders>>
    /\ UNCHANGED <<envVars, parseVars, pushVars>>

\* err := settings.AcquirePackageCacheLock()
G_Acquire(g) ==
    /\ gpc[g] = "start"
    /\ CanAcquirePackageCacheLock(g)
    /\ lockHolders' = AcquirePackageCacheLock(g)
    /\ gpc' = [gpc EXCEPT ![g] = "loop"]
    /\ gi' = [gi EXCEPT ![g] = 0]
    /\ UNCHANGED <<gread, gotlist, wg, mainpc, verdict>>
    /\ UNCHANGED <<envVars, parseVars, pushVars>>

\* for i := 0; i < 10; i++: the loop test, and the read of gotlist that
\* append(gotlist, ...) starts with
G_Loop(g) ==
    /\ gpc[g] = "loop"
    /\ IF gi[g] < N_APPENDS
       THEN /\ gread' = [gread EXCEPT ![g] = gotlist]
            /\ gpc' = [gpc EXCEPT ![g] = "append"]
       ELSE /\ gread' = gread
            /\ gpc' = [gpc EXCEPT ![g] = "release"]
    /\ UNCHANGED <<gi, gotlist, wg, mainpc, verdict, lockHolders>>
    /\ UNCHANGED <<envVars, parseVars, pushVars>>

\* gotlist = append(gotlist, fmt.Sprintf(...)); i++
G_Append(g) ==
    /\ gpc[g] = "append"
    /\ gotlist' = Append(gread[g], Entry(g, gi[g]))
    /\ gi' = [gi EXCEPT ![g] = @ + 1]
    /\ gpc' = [gpc EXCEPT ![g] = "loop"]
    /\ UNCHANGED <<gread, wg, mainpc, verdict, lockHolders>>
    /\ UNCHANGED <<envVars, parseVars, pushVars>>

\* A goroutine that returns without releasing the lock.
G_Release_Skipped(g) ==
    /\ gpc[g] = "release"
    /\ gpc' = [gpc EXCEPT ![g] = "exit"]
    /\ UNCHANGED <<gi, gread, gotlist, wg, mainpc, verdict, lockHolders>>
    /\ UNCHANGED <<envVars, parseVars, pushVars>>

\* err = settings.ReleasePackageCacheLock()
G_Release(g) ==
    /\ gpc[g] = "release"
    /\ lockHolders' = ReleasePackageCacheLock(g)
    /\ gpc' = [gpc EXCEPT ![g] = "exit"]
    /\ UNCHANGED <<gi, gread, gotlist, wg, mainpc, verdict>>
    /\ UNCHANGED <<envVars, parseVars, pushVars>>

\* defer wg.Done()
G_Done(g) ==
    /\ gpc[g] = "exit"
    /\ wg' = wg - 1
    /\ gpc' = [gpc EXCEPT ![g] = "done"]
    /\ UNCHANGED <<gi, gread, gotlist, mainpc, verdict, lockHolders>>
    /\ UNCHANGED <<envVars, parseVars, pushVars>>

\* wg.Wait()
MainWait ==
    /\ mainpc = "wait"
    /\ wg = 0
    /\ mainpc' = "assert"
    /\ UNCHANGED <<gpc, gi, gread, gotlist, wg, verdict, lockHolders>>
    /\ UNCHANGED <<envVars, parseVars, pushVars>>

\* assert.Equal(t, DeepEqual(gotlist, ..1_first..) || DeepEqual(.., ..2_first..), true)
MainAssert ==
    /\ mainpc = "assert"
    /\ verdict' = IF gotlist \in {goroutine_1_first_list, goroutine_2_first_list}
                  THEN "pass" ELSE "fail"
    /\ mainpc' = "done"
    /\ UNCHANGED <<gpc, gi, gread, gotlist, wg, lockHolders>>
    /\ UNCHANGED <<envVars, parseVars, pushVars>>

NextLock ==
    \/ MainAdd
    \/ \E g \in Goroutines : MainGo(g)
    \/ \E g \in Goroutines : G_Acquire(g)
    \/ \E g \in Goroutines : G_Loop(g)
    \/ \E g \in Goroutines : G_Append(g)
    \/ \E g \in Goroutines : G_Release(g)
    \/ \E g \in Goroutines : G_Done(g)
    \/ MainWait
    \/ MainAssert

SpecLock == InitLock /\ [][NextLock]_vars

\* The steps of goroutine g, and those of the test's own goroutine.
GoroutineStep(g) ==
    \/ G_Acquire(g)
    \/ G_Loop(g)
    \/ G_Append(g)
    \/ G_Release(g)
    \/ G_Done(g)
MainStep ==
    \/ MainAdd
    \/ \E g \in Goroutines : MainGo(g)
    \/ MainWait
    \/ MainAssert

\* The test under the Go scheduler: a goroutine that can run, and stays
\* able to, does run.
SpecLockFair ==
    /\ SpecLock
    /\ \A g \in Goroutines : WF_vars(GoroutineStep(g))
    /\ WF_vars(MainStep)

---------------------------------------------------------------------------
(* TestSettingEnv: os.Setenv and settings.GetSettings in any order         *)

\* The values an environment variable is set to.
EnvValues(k) ==
    CASE k = "KPM_REG"  -> {EmptyStr, S_test_reg}
      [] k = "KPM_REPO" -> {EmptyStr, S_test_repo}
      [] k = "OCI_REG_PLAIN_HTTP" -> {"", "on", "off", "true"}

\* The process starts with a clean environment and the persisted defaults.
InitEnv ==
    /\ env = CleanEnv
    /\ kpm_settings = DefaultKpmConf
    /\ lockHolders = {}
    /\ LockIdle
    /\ ParseIdle
    /\ PushIdle

\* err := os.Setenv(k, v)
Setenv ==
    /\ \E k \in DOMAIN env : \E v \in EnvValues(k) :
          env' = [env EXCEPT ![k] = v]
    /\ op' = "Setenv"
    /\ UNCHANGED <<kpm_settings, in_str, in_tag, res, lockHolders>>
    /\ UNCHANGED <<lockVars, pushVars>>

\* settings = GetSettings()
CallGetSettings ==
    /\ kpm_settings' = GetSettings(kpm_settings, env)
    /\ op' = "GetSettings"
    /\ UNCHANGED <<env, in_str, in_tag, res, lockHolders>>
    /\ UNCHANGED <<lockVars, pushVars>>

NextEnv ==
    \/ Setenv
    \/ CallGetSettings

SpecEnv == InitEnv /\ [][NextEnv]_vars

---------------------------------------------------------------------------
(* pkg/cmd/cmd_push.go: the push pipeline                                  *)

\* The concurrent `kpm push` invocations.
Runs == {1, 2}

\* Paths: the working directory of run p, the directory its archive is
\* extracted into, and the archive its package is staged into.
PwdOf(p)       == <<"pwd", p>>
UntarDirOf(p)  == <<"untar", p>>
StagedTarOf(p) == <<"tar", p>>
NoPath         == <<"none", 0>>

\* utils.DirExists(path): whether path exists, file or directory.
DirExists(path) == path \in disk

\* utils.JoinPath(base, elem): base and elem joined by exactly one "/".
JoinPath(base, elem) ==
    TrimSuffix(base, <<"/">>) \o <<"/">> \o TrimPrefix(elem, <<"/">>)

\* A nil *pkg.KclPkg.
NilPkg == [isNil |-> TRUE, name |-> EmptyStr, tag |-> EmptyStr,
           HomePath |-> NoPath]

\* The package identities a load can return: GetPkgName(), GetPkgTag().
PkgIdentities ==
    {[name |-> S_mypkg, tag |-> S_v1_0_0], [name |-> S_k, tag |-> S_v2]}

KclPkg(id, home) ==
    [isNil |-> FALSE, name |-> id.name, tag |-> id.tag, HomePath |-> home]

\* The destinations given on the command line: none, an oci URL, a compact
\* reference, a URL of another scheme, a malformed URL.
U_malformed == <<":", "x">>
Destinations == {EmptyStr, U_oci_example, U_ref_tagged, U_http, U_malformed}

\* pkg.LoadKclPkgFromTar(localTarPath): the disk after it.  A successful
\* load has extracted the archive into a fresh directory; a failed one
\* leaves no extraction directory behind.
LoadKclPkgFromTar_Disk(p, ok) == IF ok THEN disk \cup {UntarDirOf(p)} ELSE disk

\* kclPkg.PackageCurrentPkgPath(vendorMode): the disk after it.  A failed
\* packaging leaves no partial archive.
PackageCurrentPkgPath_Disk(p, ok) ==
    IF ok THEN disk \cup {StagedTarOf(p)} ELSE disk

\* Staging reads the shared package cache, and holds the cache lock while
\* it does, unless it runs in vendor mode.
StagingTakesCacheLock(vendorMode) == ~vendorMode

\* genDefaultOciUrlForKclPkg with the repository prefix left out of the path.
genDefaultOciUrlForKclPkg_NoPrefix(kpkg, settings) ==
    IF settings.ErrorEvent # "nil"
    THEN [url |-> EmptyStr, err |-> settings.ErrorEvent]
    ELSE [url |-> UrlString(S_oci, settings.DefaultOciRegistry, kpkg.name),
          err |-> "nil"]

\* genDefaultOciUrlForKclPkg without its test of settings.ErrorEvent.
genDefaultOciUrlForKclPkg_IgnoresDiagnostic(kpkg, settings) ==
    [url |-> UrlString(S_oci, settings.DefaultOciRegistry,
                       JoinPath(settings.DefaultOciRepo, kpkg.name)),
     err |-> "nil"]

\* genDefaultOciUrlForKclPkg(pkg) (string, error), with settings the
\* result of the settings.GetSettings() call it makes.
genDefaultOciUrlForKclPkg(kpkg, settings) ==
    IF settings.ErrorEvent # "nil"
    THEN [url |-> EmptyStr, err |-> settings.ErrorEvent]
    ELSE [url |-> UrlString(S_oci, settings.DefaultOciRegistry,
                            JoinPath(settings.DefaultOciRepo, kpkg.name)),
          err |-> "nil"]

\* pushPackage step 2: the given oci url, or the default one when none is
\* given.
DestinationUrl(ociUrl, kpkg, settings) ==
    IF Len(ociUrl) = 0 THEN genDefaultOciUrlForKclPkg(kpkg, settings)
    ELSE [url |-> ociUrl, err |-> "nil"]

\* The outcome of pushPackage steps 2 and 3 for the url of step 2 (gen)
\* and the options parsed from it in step 3 (r).
DestinationOutcome(gen, r) ==
    IF gen.err # "nil" \/ Len(gen.url) = 0
    THEN [opts |-> NilOpts, err |-> "FailedPushToOci",
          reports |-> <<"failed to generate default oci url",
                        "run 'kpm push help'">>]
    ELSE IF r.err # "nil"
    THEN [opts |-> NilOpts, err |-> "UnsupportOciUrlScheme",
          reports |-> << >>]
    ELSE [opts |-> r.opts, err |-> "nil",
          reports |-> <<"package will be pushed">>]

\* Step 3 of pushPackage calling ParseOciOptionFromString, which falls back
\* to a compact reference.
ParseDestination_WithFallback(gen, tag, settings) ==
    DestinationOutcome(gen, ParseOciOptionFromString(gen.url, tag, settings))

\* Step 3 of pushPackage: opt.ParseOciOptionFromOciUrl(ociUrl,
\* kclPkg.GetPkgTag()) on the url of step 2.
ParseDestination(gen, tag, settings) ==
    DestinationOutcome(gen, ParseOciOptionFromOciUrl(gen.url, tag))

\* Steps 2 and 3 of pushPackage.
pushPackage_Destination(ociUrl, kpkg, settings) ==
    ParseDestination(DestinationUrl(ociUrl, kpkg, settings), kpkg.tag, settings)

NoHistory == [failed |-> "none", removeFailed |-> {}, created |-> {}]

\* Environments of the push runs: those of the parsing calls, and a
\* KPM_REPO override that ends with the path separator.
S_repo_slash == S_test_repo \o <<"/">>
PushEnvs ==
    ParseEnvs \cup {[KPM_REG |-> EmptyStr, KPM_REPO |-> S_repo_slash,
                     OCI_REG_PLAIN_HTTP |-> ""]}

Init ==
    /\ env \in PushEnvs
    /\ kpm_settings = GetSettings(DefaultKpmConf, env)
    /\ lockHolders = {}
    /\ pc = [p \in Runs |-> "idle"]
    /\ args = [p \in Runs |->
                 [ociUrl |-> EmptyStr, localTarPath |-> "", vendorMode |-> FALSE]]
    /\ kclPkg = [p \in Runs |-> NilPkg]
    /\ tarPath = [p \in Runs |-> NoPath]
    /\ ociOpts = [p \in Runs |-> NilOpts]
    /\ localErr = [p \in Runs |-> "nil"]
    /\ ret = [p \in Runs |-> "pending"]
    /\ disk = {PwdOf(p) : p \in Runs}
    /\ pushed = [p \in Runs |-> << >>]
    /\ reports = [p \in Runs |-> << >>]
    /\ hist = [p \in Runs |-> NoHistory]
    /\ ParseIdle
    /\ LockIdle

\* The function run p is in after pushPackage returns: pushTarPackage, whose
\* deferred function is still to run, or pushCurrentPackage, which has none.
AfterPushPackage(p) ==
    IF Len(args[p].localTarPath) = 0 THEN "returned" ELSE "pushTarPackage_defer"

\* KpmPush(c, settings): the flags and the first argument, and the choice
\* between pushCurrentPackage and pushTarPackage.
KpmPush(p) ==
    /\ pc[p] = "idle"
    /\ \E url \in Destinations, tar \in {"", "pkg.tar"}, vendor \in BOOLEAN :
          /\ args' = [args EXCEPT ![p] = [ociUrl |-> url, localTarPath |-> tar,
                                          vendorMode |-> vendor]]
          /\ pc' = [pc EXCEPT ![p] = IF Len(tar) = 0 THEN "pushCurrentPackage"
                                     ELSE "pushTarPackage"]
    /\ UNCHANGED <<kclPkg, tarPath, ociOpts, localErr, ret, disk, pushed,
                   reports, hist, lockHolders>>
    /\ UNCHANGED <<envVars, parseVars, lockVars>>

\* pushCurrentPackage up to its call of pushPackage: os.Getwd and
\* pkg.LoadKclPkg(pwd), each of which may fail.
pushCurrentPackage(p) ==
    /\ pc[p] = "pushCurrentPackage"
    /\ \/ /\ reports' = [reports EXCEPT ![p] =
                            Append(@, "internal bug: failed to load working directory")]
          /\ ret' = [ret EXCEPT ![p] = "GetwdError"]
          /\ hist' = [hist EXCEPT ![p].failed = "load"]
          /\ pc' = [pc EXCEPT ![p] = "returned"]
          /\ UNCHANGED kclPkg
       \/ /\ reports' = [reports EXCEPT ![p] =
                            Append(@, "failed to load package")]
          /\ ret' = [ret EXCEPT ![p] = "LoadError"]
          /\ hist' = [hist EXCEPT ![p].failed = "load"]
          /\ pc' = [pc EXCEPT ![p] = "returned"]
          /\ UNCHANGED kclPkg
       \/ /\ \E id \in PkgIdentities :
                kclPkg' = [kclPkg EXCEPT ![p] = KclPkg(id, PwdOf(p))]
          /\ pc' = [pc EXCEPT ![p] = "pushPackage"]
          /\ UNCHANGED <<reports, ret, hist>>
    /\ UNCHANGED <<args, tarPath, ociOpts, localErr, disk, pushed, lockHolders>>
    /\ UNCHANGED <<envVars, parseVars, lockVars>>

\* pushTarPackage up to its call of pushPackage: pkg.LoadKclPkgFromTar,
\* after the deferred cleanup has been registered.
pushTarPackage(p) ==
    /\ pc[p] = "pushTarPackage"
    /\ \/ /\ disk' = LoadKclPkgFromTar_Disk(p, FALSE)
          /\ ret' = [ret EXCEPT ![p] = "LoadError"]
          /\ localErr' = [localErr EXCEPT ![p] = "LoadError"]
          /\ hist' = [hist EXCEPT ![p].failed = "load"]
          /\ pc' = [pc EXCEPT ![p] = "pushTarPackage_defer"]
          /\ UNCHANGED kclPkg
       \/ /\ disk' = LoadKclPkgFromTar_Disk(p, TRUE)
          /\ \E id \in PkgIdentities :
                kclPkg' = [kclPkg EXCEPT ![p] = KclPkg(id, UntarDirOf(p))]
          /\ hist' = [hist EXCEPT ![p].created = @ \cup {UntarDirOf(p)}]
          /\ pc' = [pc EXCEPT ![p] = "pushPackage"]
          /\ UNCHANGED <<ret, localErr>>
    /\ UNCHANGED <<args, tarPath, ociOpts, pushed, reports, lockHolders>>
    /\ UNCHANGED <<envVars, parseVars, lockVars>>

\* A staging that takes the cache lock in vendor mode too.
pushPackage_PackageBegin_AlwaysLocks(p) ==
    /\ pc[p] = "pushPackage"
    /\ CanAcquirePackageCacheLock(p)
    /\ lockHolders' = AcquirePackageCacheLock(p)
    /\ pc' = [pc EXCEPT ![p] = "packaging"]
    /\ UNCHANGED <<args, kclPkg, tarPath, ociOpts, localErr, ret, disk, pushed,
                   reports, hist>>
    /\ UNCHANGED <<envVars, parseVars, lockVars>>

\* pushPackage step 1 begins: kclPkg.PackageCurrentPkgPath(vendorMode) is
\* entered, taking the cache lock when staging reads the shared cache.
pushPackage_PackageBegin(p) ==
    /\ pc[p] = "pushPackage"
    /\ IF StagingTakesCacheLock(args[p].vendorMode)
       THEN /\ CanAcquirePackageCacheLock(p)
            /\ lockHolders' = AcquirePackageCacheLock(p)
       ELSE lockHolders' = lockHolders
    /\ pc' = [pc EXCEPT ![p] = "packaging"]
    /\ UNCHANGED <<args, kclPkg, tarPath, ociOpts, localErr, ret, disk, pushed,
                   reports, hist>>
    /\ UNCHANGED <<envVars, parseVars, lockVars>>

\* A staging that gives the cache lock back only when it succeeds.
pushPackage_PackageEnd_KeepsLockOnFailure(p) ==
    /\ pc[p] = "packaging"
    /\ \/ /\ disk' = PackageCurrentPkgPath_Disk(p, FALSE)
          /\ ret' = [ret EXCEPT ![p] = "PackagingError"]
          /\ hist' = [hist EXCEPT ![p].failed = "stage"]
          /\ pc' = [pc EXCEPT ![p] = AfterPushPackage(p)]
          /\ UNCHANGED <<tarPath, lockHolders>>
       \/ /\ disk' = PackageCurrentPkgPath_Disk(p, TRUE)
          /\ lockHolders' = IF StagingTakesCacheLock(args[p].vendorMode)
                            THEN ReleasePackageCacheLock(p) ELSE lockHolders
          /\ tarPath' = [tarPath EXCEPT ![p] = StagedTarOf(p)]
          /\ hist' = [hist EXCEPT ![p].created = @ \cup {StagedTarOf(p)}]
          /\ pc' = [pc EXCEPT ![p] = "resolve"]
          /\ UNCHANGED ret
    /\ UNCHANGED <<args, kclPkg, ociOpts, localErr, pushed, reports>>
    /\ UNCHANGED <<envVars, parseVars, lockVars>>

\* pushPackage step 1 ends: PackageCurrentPkgPath returns the archive path
\* or an error, on which pushPackage returns before it has registered its
\* deferred cleanup.
pushPackage_PackageEnd(p) ==
    /\ pc[p] = "packaging"
    /\ lockHolders' = IF StagingTakesCacheLock(args[p].vendorMode)
                      THEN ReleasePackageCacheLock(p) ELSE lockHolders
    /\ \/ /\ disk' = PackageCurrentPkgPath_Disk(p, FALSE)
          /\ ret' = [ret EXCEPT ![p] = "PackagingError"]
          /\ hist' = [hist EXCEPT ![p].failed = "stage"]
          /\ pc' = [pc EXCEPT ![p] = AfterPushPackage(p)]
          /\ UNCHANGED tarPath
       \/ /\ disk' = PackageCurrentPkgPath_Disk(p, TRUE)
          /\ tarPath' = [tarPath EXCEPT ![p] = StagedTarOf(p)]
          /\ hist' = [hist EXCEPT ![p].created = @ \cup {StagedTarOf(p)}]
          /\ pc' = [pc EXCEPT ![p] = "resolve"]
          /\ UNCHANGED ret
    /\ UNCHANGED <<args, kclPkg, ociOpts, localErr, pushed, reports>>
    /\ UNCHANGED <<envVars, parseVars, lockVars>>

\* The process-wide settings after steps 2 and 3 of run p:
\* genDefaultOciUrlForKclPkg reloads them with settings.GetSettings().
SettingsAfterResolve(p) ==
    IF Len(args[p].ociUrl) = 0 THEN GetSettings(kpm_settings, env)
    ELSE kpm_settings

\* A pushPackage that records the error of steps 2 and 3 and goes on to
\* push.
ResolvedAs_ContinuesOnError(p, d) ==
    /\ reports' = [reports EXCEPT ![p] = @ \o d.reports]
    /\ ociOpts' = [ociOpts EXCEPT ![p] = d.opts]
    /\ IF d.err # "nil"
       THEN /\ ret' = [ret EXCEPT ![p] = d.err]
            /\ hist' = [hist EXCEPT ![p].failed = "resolve"]
       ELSE UNCHANGED <<ret, hist>>
    /\ pc' = [pc EXCEPT ![p] = "push"]

\* Run p leaves steps 2 and 3 with destination outcome d: the reports, and
\* either the return of the error or the options to push with.
ResolvedAs(p, d) ==
    /\ reports' = [reports EXCEPT ![p] = @ \o d.reports]
    /\ ociOpts' = [ociOpts EXCEPT ![p] = d.opts]
    /\ IF d.err # "nil"
       THEN /\ ret' = [ret EXCEPT ![p] = d.err]
            /\ hist' = [hist EXCEPT ![p].failed = "resolve"]
            /\ pc' = [pc EXCEPT ![p] = "pushPackage_defer"]
       ELSE /\ pc' = [pc EXCEPT ![p] = "push"]
            /\ UNCHANGED <<ret, hist>>

\* pushPackage steps 2 and 3: the destination.
pushPackage_Resolve(p) ==
    /\ pc[p] = "resolve"
    /\ kpm_settings' = SettingsAfterResolve(p)
    /\ ResolvedAs(p, pushPackage_Destination(args[p].ociUrl, kclPkg[p],
                                             SettingsAfterResolve(p)))
    /\ UNCHANGED <<args, kclPkg, tarPath, localErr, disk, pushed, lockHolders>>
    /\ UNCHANGED <<env, parseVars, lockVars>>

\* A pushPackage that returns nil whatever oci.Push returned.
pushPackage_Push_ErrorDropped(p) ==
    /\ pc[p] = "push"
    /\ pushed' = [pushed EXCEPT ![p] =
                    Append(@, [tarPath |-> tarPath[p], Reg |-> ociOpts[p].Reg,
                               Repo |-> ociOpts[p].Repo, Tag |-> ociOpts[p].Tag,
                               staged |-> DirExists(tarPath[p])])]
    /\ ret' = [ret EXCEPT ![p] = "nil"]
    /\ \/ UNCHANGED hist
       \/ hist' = [hist EXCEPT ![p].failed = "push"]
    /\ pc' = [pc EXCEPT ![p] = "pushPackage_defer"]
    /\ UNCHANGED <<args, kclPkg, tarPath, ociOpts, localErr, disk, reports,
                   lockHolders>>
    /\ UNCHANGED <<envVars, parseVars, lockVars>>

\* pushPackage step 4: oci.Push(tarPath, Reg, Repo, Tag, settings), which
\* succeeds or fails.
pushPackage_Push(p) ==
    /\ pc[p] = "push"
    /\ pushed' = [pushed EXCEPT ![p] =
                    Append(@, [tarPath |-> tarPath[p], Reg |-> ociOpts[p].Reg,
                               Repo |-> ociOpts[p].Repo, Tag |-> ociOpts[p].Tag,
                               staged |-> DirExists(tarPath[p])])]
    /\ \/ /\ ret' = [ret EXCEPT ![p] = "nil"]
          /\ UNCHANGED hist
       \/ /\ ret' = [ret EXCEPT ![p] = "PushError"]
          /\ hist' = [hist EXCEPT ![p].failed = "push"]
    /\ pc' = [pc EXCEPT ![p] = "pushPackage_defer"]
    /\ UNCHANGED <<args, kclPkg, tarPath, ociOpts, localErr, disk, reports,
                   lockHolders>>
    /\ UNCHANGED <<envVars, parseVars, lockVars>>

\* os.RemoveAll(path) in a deferred function of run p: the path is removed,
\* or the removal fails and the function's err variable is set to
\* errors.InternalBug.  The value already returned is not touched.
DeferredRemoveAll(p, path) ==
    \/ /\ disk' = disk \ {path}
       /\ localErr' = [localErr EXCEPT ![p] = "nil"]
       /\ UNCHANGED hist
    \/ /\ disk' = disk
       /\ localErr' = [localErr EXCEPT ![p] = "InternalBug"]
       /\ hist' = [hist EXCEPT ![p].removeFailed = @ \cup {path}]

\* A pushPackage whose deferred function removes the package home instead
\* of the tar path.
pushPackage_Defer_RemovesHome(p) ==
    /\ pc[p] = "pushPackage_defer"
    /\ IF ~kclPkg[p].isNil /\ DirExists(kclPkg[p].HomePath)
       THEN DeferredRemoveAll(p, kclPkg[p].HomePath)
       ELSE UNCHANGED <<disk, localErr, hist>>
    /\ pc' = [pc EXCEPT ![p] = AfterPushPackage(p)]
    /\ UNCHANGED <<args, kclPkg, tarPath, ociOpts, ret, pushed, reports,
                   lockHolders>>
    /\ UNCHANGED <<envVars, parseVars, lockVars>>

\* A pushPackage whose cleanup of the tar path runs only after a
\* successful push.
pushPackage_Defer_OnSuccessOnly(p) ==
    /\ pc[p] = "pushPackage_defer"
    /\ IF ~kclPkg[p].isNil /\ DirExists(tarPath[p]) /\ ret[p] = "nil"
       THEN DeferredRemoveAll(p, tarPath[p])
       ELSE UNCHANGED <<disk, localErr, hist>>
    /\ pc' = [pc EXCEPT ![p] = AfterPushPackage(p)]
    /\ UNCHANGED <<args, kclPkg, tarPath, ociOpts, ret, pushed, reports,
                   lockHolders>>
    /\ UNCHANGED <<envVars, parseVars, lockVars>>

\* pushPackage's deferred function: clean the tar path.
pushPackage_Defer(p) ==
    /\ pc[p] = "pushPackage_defer"
    /\ IF ~kclPkg[p].isNil /\ DirExists(tarPath[p])
       THEN DeferredRemoveAll(p, tarPath[p])
       ELSE UNCHANGED <<disk, localErr, hist>>
    /\ pc' = [pc EXCEPT ![p] = AfterPushPackage(p)]
    /\ UNCHANGED <<args, kclPkg, tarPath, ociOpts, ret, pushed, reports,
                   lockHolders>>
    /\ UNCHANGED <<envVars, parseVars, lockVars>>

\* A pushTarPackage whose cleanup of the temp dir runs only after a
\* failure.
pushTarPackage_Defer_OnFailureOnly(p) ==
    /\ pc[p] = "pushTarPackage_defer"
    /\ IF ~kclPkg[p].isNil /\ DirExists(kclPkg[p].HomePath) /\ ret[p] # "nil"
       THEN DeferredRemoveAll(p, kclPkg[p].HomePath)
       ELSE UNCHANGED <<disk, localErr, hist>>
    /\ pc' = [pc EXCEPT ![p] = "returned"]
    /\ UNCHANGED <<args, kclPkg, tarPath, ociOpts, ret, pushed, reports,
                   lockHolders>>
    /\ UNCHANGED <<envVars, parseVars, lockVars>>

\* pushTarPackage's deferred function: clean the temp dir used to untar
\* the package.
pushTarPackage_Defer(p) ==
    /\ pc[p] = "pushTarPackage_defer"
    /\ IF ~kclPkg[p].isNil /\ DirExists(kclPkg[p].HomePath)
       THEN DeferredRemoveAll(p, kclPkg[p].HomePath)
       ELSE UNCHANGED <<disk, localErr, hist>>
    /\ pc' = [pc EXCEPT ![p] = "returned"]
    /\ UNCHANGED <<args, kclPkg, tarPath, ociOpts, ret, pushed, reports,
                   lockHolders>>
    /\ UNCHANGED <<envVars, parseVars, lockVars>>

Next ==
    \/ \E p \in Runs : KpmPush(p)
    \/ \E p \in Runs : pushCurrentPackage(p)
    \/ \E p \in Runs : pushTarPackage(p)
    \/ \E p \in Runs : pushPackage_PackageBegin(p)
    \/ \E p \in Runs : pushPackage_PackageEnd(p)
    \/ \E p \in Runs : pushPackage_Resolve(p)
    \/ \E p \in Runs : pushPackage_Push(p)
    \/ \E p \in Runs : pushPackage_Defer(p)
    \/ \E p \in Runs : pushTarPackage_Defer(p)

Spec == Init /\ [][Next]_vars

---------------------------------------------------------------------------
(* Claims about the parsing functions (checked under SpecParse)            *)

S_oci_colon == S_oci \o <<":">>
S_oci_slashes == S_oci \o <<":", "/", "/">>
NumColons(s) == Cardinality(Positions(s, ":"))
AfterColon(s) == SubSeq(s, Index(s, ":") + 1, Len(s))
BeforeColon(s) == SubSeq(s, 1, Index(s, ":") - 1)

\* C6 as stated: ParseOciUrl succeeds only on a well-formed URL of scheme
\* oci, then host = authority, repository = path and the tag is empty, and
\* every failure, malformed URLs included, has the unsupported-scheme kind.
C6_AsClaimed ==
    op = "ParseOciUrl" =>
        /\ res.err = "nil" =>
              /\ ~UrlParse(in_str).err
              /\ UrlParse(in_str).Scheme = S_oci
              /\ res.opts.Reg = UrlParse(in_str).Host
              /\ res.opts.Repo = UrlParse(in_str).Path
              /\ res.opts.Tag = EmptyStr
        /\ res.err # "nil" => res.err = "UrlSchemeNotOci"

\* C6 amended: ParseOciUrl succeeds exactly on the well-formed URLs that
\* start with "oci:"; on success the tag is empty and, for "oci://...",
\* the input is "oci://" followed by the host (no "/" in it) and the path
\* (empty or starting with "/"); a well-formed URL of another scheme fails
\* with UrlSchemeNotOci and a malformed URL fails with IsNotUrl, in both
\* cases with no coordinate.
C6_ParseOciUrl ==
    op = "ParseOciUrl" =>
        LET wellFormed == ~UrlParse(in_str).err
        IN  /\ res.err = "nil" <=> (wellFormed /\ HasPrefix(in_str, S_oci_colon))
            /\ res.err = "nil" =>
                  /\ ~res.opts.isNil
                  /\ res.opts.Tag = EmptyStr
                  /\ IF HasPrefix(in_str, S_oci_slashes)
                     THEN /\ in_str = S_oci_slashes \o res.opts.Reg
                                                    \o res.opts.Repo
                          /\ ~Contains(res.opts.Reg, "/")
                          /\ res.opts.Repo # EmptyStr => res.opts.Repo[1] = "/"
                     ELSE /\ res.opts.Reg = EmptyStr
                          /\ res.opts.Repo # EmptyStr =>
                                in_str = S_oci_colon \o res.opts.Repo
            /\ res.err # "nil" =>
                  /\ res.opts.isNil
                  /\ res.err = IF wellFormed THEN "UrlSchemeNotOci"
                               ELSE "IsNotUrl"

\* The documented example: oci://ghcr.io/kcl-lang/mypkg parsed into host
\* ghcr.io and path /kcl-lang/mypkg.
C6_Witness ==
    /\ op = "ParseOciUrl"
    /\ in_str = U_oci_example
    /\ res.err = "nil"
    /\ res.opts.Reg = S_ghcr_io
    /\ res.opts.Repo = S_path_example
    /\ res.opts.Tag = EmptyStr

\* C7 as stated: the number of ":"-separated segments alone decides the
\* result of ParseOciRef: one segment is the repository with an empty tag,
\* two are repository and tag, both on the default registry, and more than
\* two fail with IsNotRef and no coordinate.
SegmentsDecide ==
    /\ NumColons(in_str) = 0 =>
          /\ res.err = "nil"
          /\ res.opts.Repo = in_str
          /\ res.opts.Tag = EmptyStr
          /\ res.opts.Reg = kpm_settings.DefaultOciRegistry
    /\ NumColons(in_str) = 1 =>
          /\ res.err = "nil"
          /\ in_str = res.opts.Repo \o <<":">> \o res.opts.Tag
          /\ res.opts.Reg = kpm_settings.DefaultOciRegistry
    /\ NumColons(in_str) >= 2 =>
          /\ res.err = "IsNotRef"
          /\ res.opts.isNil

C7_AsClaimed == op = "ParseOciRef" => SegmentsDecide

\* C7 amended: when the settings carry no diagnostic the segments decide
\* the result as stated; when settings.ErrorEvent is set, ParseOciRef
\* fails with that event and no coordinate for every input.
C7_ParseOciRef ==
    op = "ParseOciRef" =>
        IF kpm_settings.ErrorEvent = "nil"
        THEN SegmentsDecide
        ELSE res.err = kpm_settings.ErrorEvent /\ res.opts.isNil

\* The documented example: mypkg:v1.0.0 on the default registry.
C7_Witness ==
    /\ op = "ParseOciRef"
    /\ in_str = U_ref_tagged
    /\ res.err = "nil"
    /\ res.opts.Repo = S_mypkg
    /\ res.opts.Tag = S_v1_0_0
    /\ res.opts.Reg = S_ghcr_io

\* A compact reference that carries its own tag: repository ":" tag, both
\* non-empty.
TaggedReference(s) ==
    /\ NumColons(s) = 1
    /\ BeforeColon(s) # EmptyStr
    /\ AfterColon(s) # EmptyStr

\* C8 as stated: for a reference that carries its own tag,
\* ParseOciOptionFromString returns the reference's tag whatever the tag
\* argument is, and a non-empty tag argument only produces the warning.
C8_AsClaimed ==
    (op = "ParseOciOptionFromString" /\ TaggedReference(in_str)
        /\ res.err = "nil") =>
        /\ res.opts.Tag = AfterColon(in_str)
        /\ in_tag # EmptyStr => res.warned

\* C8 outside the failing inputs: the same for every tagged reference whose
\* repository part is not "oci".
C8_ExceptRepositoryOci ==
    (op = "ParseOciOptionFromString" /\ TaggedReference(in_str)
        /\ BeforeColon(in_str) # S_oci /\ res.err = "nil") =>
        /\ res.opts.Tag = AfterColon(in_str)
        /\ res.opts.Repo = BeforeColon(in_str)
        /\ in_tag # EmptyStr => res.warned


---------------------------------------------------------------------------
(* Claims about the push pipeline (checked under Spec)                     *)

Returned(p) == pc[p] = "returned"
Failed(p)   == Returned(p) /\ ret[p] # "nil"
Succeeded(p) == Returned(p) /\ ret[p] = "nil"
ArchiveMode(p) == Len(args[p].localTarPath) # 0

\* The paths run p created that are still on disk.
LeftOnDisk(p) == hist[p].created \cap disk

\* The stages at which a run can fail.
Stages == {"load", "stage", "resolve", "push"}

PrimaryReports ==
    {"internal bug: failed to load working directory",
     "failed to load package",
     "failed to generate default oci url",
     "run 'kpm push help'",
     "package will be pushed"}

\* Some line reported by run p is about something else than its primary
\* outcome.
CleanupReported(p) ==
    \E i \in 1..Len(reports[p]) : reports[p][i] \notin PrimaryReports

\* The value a run returns for the stage it failed at.
PrimaryResults(stage) ==
    CASE stage = "none"    -> {"nil"}
      [] stage = "load"    -> {"GetwdError", "LoadError"}
      [] stage = "stage"   -> {"PackagingError"}
      [] stage = "resolve" -> {"FailedPushToOci", "UnsupportOciUrlScheme"}
      [] stage = "push"    -> {"PushError"}

\* C4 as stated: the value a run returns is that of its primary outcome
\* whether or not a removal failed, and a removal that failed has been
\* reported.
C4_AsClaimed ==
    \A p \in Runs : Returned(p) =>
        /\ ret[p] \in PrimaryResults(hist[p].failed)
        /\ hist[p].removeFailed # {} => CleanupReported(p)

\* C4, the part the code keeps: the value a run returns is that of its
\* primary outcome whether or not a removal failed; errors.InternalBug is
\* never returned.
C4_ResultUnchanged ==
    \A p \in Runs : Returned(p) =>
        /\ ret[p] \in PrimaryResults(hist[p].failed)
        /\ ret[p] # "InternalBug"

Resolved(p) == tarPath[p] # NoPath /\ pc[p] # "resolve"

Normalised(s) ==
    /\ ~HasSuffix(s, <<"/">>)
    /\ \A i \in 1..(Len(s) - 1) : ~(s[i] = "/" /\ s[i + 1] = "/")

\* The coordinates a run given no destination pushed to.
DefaultPushes(p) ==
    IF args[p].ociUrl = EmptyStr
    THEN {pushed[p][i] : i \in 1..Len(pushed[p])} ELSE {}

\* C10 as stated: a run given no destination pushes to the default
\* registry, to the repository JoinPath(default repository, package name),
\* with the package's tag.
C10_AsClaimed ==
    \A p \in Runs : \A c \in DefaultPushes(p) :
        /\ c.Reg = kpm_settings.DefaultOciRegistry
        /\ c.Repo = JoinPath(kpm_settings.DefaultOciRepo, kclPkg[p].name)
        /\ c.Tag = kclPkg[p].tag

\* C10 amended: a run given no destination pushes to the default registry,
\* with the package's tag, and to the repository "/" followed by the
\* default repository (without a "/" at its end), one "/" and the package
\* name: the path of the default URL, which starts with "/".
C10_DefaultDestination ==
    \A p \in Runs : \A c \in DefaultPushes(p) :
        /\ c.Reg = kpm_settings.DefaultOciRegistry
        /\ c.Repo = <<"/">> \o TrimSuffix(kpm_settings.DefaultOciRepo, <<"/">>)
                            \o <<"/">> \o kclPkg[p].name
        /\ Normalised(c.Repo)
        /\ c.Tag = kclPkg[p].tag

\* A package mypkg of tag v1.0.0 was pushed, with no destination given and
\* KPM_REPO=test_repo/, to /test_repo/mypkg on ghcr.io.
C10_Witness ==
    \E p \in Runs :
        /\ env.KPM_REPO = S_repo_slash
        /\ args[p].ociUrl = EmptyStr
        /\ Len(pushed[p]) = 1
        /\ pushed[p][1].Reg = S_ghcr_io
        /\ pushed[p][1].Repo = <<"/">> \o S_test_repo \o <<"/">> \o S_mypkg
        /\ pushed[p][1].Tag = S_v1_0_0


\* The settings carry the diagnostic of an invalid environment value.
DiagnosticSet == kpm_settings.ErrorEvent # "nil"

\* C11 as stated: a run made while the settings carry the diagnostic of an
\* invalid environment value does not fail because of it: with no
\* destination given, where only the diagnostic can make the destination
\* steps fail, they do not fail.
C11_AsClaimed ==
    \A p \in Runs :
        (Resolved(p) /\ DiagnosticSet /\ args[p].ociUrl = EmptyStr) =>
            hist[p].failed # "resolve"

\* C11 amended: while the settings carry the diagnostic they stay readable
\* (registry, repository, and the plain-HTTP flag at its previous value),
\* and a run given a destination resolves it exactly as it would without
\* the diagnostic; but a run given no destination fails at the destination
\* steps with FailedPushToOci, reports the failure, and pushes nothing,
\* because genDefaultOciUrlForKclPkg inspects the diagnostic.
C11_InvalidEnvironment ==
    DiagnosticSet =>
        /\ kpm_settings.DefaultOciRegistry = S_ghcr_io
        /\ kpm_settings.DefaultOciRepo = S_kcl_lang
        /\ kpm_settings.DefaultOciPlainHttp = FALSE
        /\ \A p \in Runs : Resolved(p) =>
              IF args[p].ociUrl = EmptyStr
              THEN /\ hist[p].failed = "resolve"
                   /\ ret[p] = "FailedPushToOci"
                   /\ reports[p] = <<"failed to generate default oci url",
                                     "run 'kpm push help'">>
                   /\ pushed[p] = << >>
              ELSE hist[p].failed = "resolve" <=>
                      ~(/\ ~UrlParse(args[p].ociUrl).err
                        /\ HasPrefix(args[p].ociUrl, S_oci_colon))

\* With OCI_REG_PLAIN_HTTP=true, a run given an oci URL has returned
\* success, and another given no destination has returned FailedPushToOci.
C11_Witness ==
    /\ env.OCI_REG_PLAIN_HTTP = "true"
    /\ DiagnosticSet
    /\ \E p, q \in Runs :
          /\ Succeeded(p)
          /\ args[p].ociUrl = U_oci_example
          /\ Returned(q)
          /\ args[q].ociUrl = EmptyStr
          /\ ret[q] = "FailedPushToOci"


\* The stages of run p that have succeeded.
IdentityLoaded(p) == ~kclPkg[p].isNil
Staged(p) == tarPath[p] # NoPath
DestinationResolved(p) == ~ociOpts[p].isNil

\* C14: the stages of a run happen in the order load, staging, destination,
\* push: a run is in a stage, or has failed at it, only if every earlier
\* stage has succeeded and no later one has begun; oci.Push is called at
\* most once, only with all three earlier stages succeeded and the staged
\* archive on disk, and never by a run that failed at an earlier stage.
C14_FailFast ==
    \A p \in Runs :
        /\ Staged(p) => IdentityLoaded(p)
        /\ DestinationResolved(p) => Staged(p)
        /\ Len(pushed[p]) <= 1
        /\ Len(pushed[p]) = 1 =>
              /\ DestinationResolved(p)
              /\ hist[p].failed \in {"none", "push"}
              /\ pushed[p][1].staged
              /\ pushed[p][1].Reg = ociOpts[p].Reg
              /\ pushed[p][1].Repo = ociOpts[p].Repo
        /\ pc[p] \in {"pushPackage", "packaging"} =>
              IdentityLoaded(p) /\ ~Staged(p)
        /\ pc[p] = "resolve" => Staged(p) /\ ~DestinationResolved(p)
        /\ pc[p] = "push" => DestinationResolved(p) /\ pushed[p] = << >>
        /\ hist[p].failed = "load" => ~IdentityLoaded(p) /\ ~Staged(p)
        /\ hist[p].failed = "stage" => IdentityLoaded(p) /\ ~Staged(p)
        /\ hist[p].failed = "resolve" =>
              Staged(p) /\ ~DestinationResolved(p)
        /\ hist[p].failed \in {"load", "stage", "resolve"} =>
              pushed[p] = << >>

\* A run given an http URL has returned from its failed destination step
\* without a push, and the other run has pushed once.
C14_Witness ==
    \E p, q \in Runs :
        /\ Returned(p)
        /\ args[p].ociUrl = U_http
        /\ hist[p].failed = "resolve"
        /\ Staged(p)
        /\ pushed[p] = << >>
        /\ Len(pushed[q]) = 1

C17_NilIffPushed ==
    \A p \in Runs : Returned(p) =>
        /\ ret[p] = "nil" <=> (Len(pushed[p]) = 1 /\ hist[p].failed = "none")
        /\ hist[p].failed \in Stages
              => ret[p] \in PrimaryResults(hist[p].failed) \ {"nil"}
        /\ hist[p].failed \in Stages \/ Len(pushed[p]) = 1

\* One run has returned nil after its push, the other an error after its
\* push failed.
C17_Witness ==
    \E p, q \in Runs :
        /\ Succeeded(p)
        /\ Len(pushed[p]) = 1
        /\ Returned(q)
        /\ ret[q] = "PushError"
        /\ Len(pushed[q]) = 1

\* C18: the working directory of a run is on disk at every instant; in
\* directory mode it is the package home, the only path the run creates or
\* tries to remove is the staged archive; in archive mode the package home
\* is the extraction directory, which is gone when the run has returned
\* unless its removal failed.
C18_HomePathOwnership ==
    \A p \in Runs :
        /\ PwdOf(p) \in disk
        /\ (IdentityLoaded(p) /\ ~ArchiveMode(p)) =>
              /\ kclPkg[p].HomePath = PwdOf(p)
              /\ hist[p].created \subseteq {StagedTarOf(p)}
              /\ hist[p].removeFailed \subseteq {StagedTarOf(p)}
              /\ UntarDirOf(p) \notin disk
        /\ (IdentityLoaded(p) /\ ArchiveMode(p)) =>
              /\ kclPkg[p].HomePath = UntarDirOf(p)
              /\ Returned(p) =>
                    (UntarDirOf(p) \in disk
                        <=> UntarDirOf(p) \in hist[p].removeFailed)

\* A directory-mode run has returned with its directory in place and its
\* staged archive removed, and an archive-mode run has returned with its
\* extraction directory removed.
C18_Witness ==
    \E p, q \in Runs :
        /\ Returned(p)
        /\ ~ArchiveMode(p)
        /\ StagedTarOf(p) \in hist[p].created
        /\ StagedTarOf(p) \notin disk
        /\ kclPkg[p].HomePath \in disk
        /\ Returned(q)
        /\ ArchiveMode(q)
        /\ IdentityLoaded(q)
        /\ kclPkg[q].HomePath \notin disk


---------------------------------------------------------------------------
(* Claims about the settings (checked under SpecEnv)                       *)

\* C12: every GetSettings call made with OCI_REG_PLAIN_HTTP=on leaves the
\* flag true, with off leaves it false, both without a diagnostic; with an
\* invalid value it leaves the flag as it was before the call and leaves
\* the one diagnostic UnknownEnv naming OCI_REG_PLAIN_HTTP and the value.
\* A valid value set after an invalid one takes effect at the next call,
\* since the first two cases hold for every call.
C12_PlainHttpOverride ==
    [][op' = "GetSettings" =>
          /\ env.OCI_REG_PLAIN_HTTP = "on" =>
                /\ kpm_settings'.DefaultOciPlainHttp = TRUE
                /\ kpm_settings'.ErrorEvent = "nil"
          /\ env.OCI_REG_PLAIN_HTTP = "off" =>
                /\ kpm_settings'.DefaultOciPlainHttp = FALSE
                /\ kpm_settings'.ErrorEvent = "nil"
          /\ env.OCI_REG_PLAIN_HTTP = "true" =>
                /\ kpm_settings'.DefaultOciPlainHttp =
                      kpm_settings.DefaultOciPlainHttp
                /\ kpm_settings'.ErrorEvent = "UnknownEnv"
                /\ kpm_settings'.ErrorDetail = <<"OCI_REG_PLAIN_HTTP", "true">>
    ]_vars

\* TestSettingEnv at its line 178: the three variables set, GetSettings
\* called, the flag still false and the diagnostic recorded.
C12_Witness ==
    /\ op = "GetSettings"
    /\ env = [KPM_REG |-> S_test_reg, KPM_REPO |-> S_test_repo,
              OCI_REG_PLAIN_HTTP |-> "true"]
    /\ kpm_settings.DefaultOciPlainHttp = FALSE
    /\ kpm_settings.ErrorEvent = "UnknownEnv"
    /\ kpm_settings.ErrorDetail = <<"OCI_REG_PLAIN_HTTP", "true">>

\* C13: after a GetSettings call made with KPM_REG and KPM_REPO set, the
\* registry and the repository are the values set, whatever
\* OCI_REG_PLAIN_HTTP holds, an invalid value included; a variable left
\* unset gives the persisted default.
C13_RegistryOverride ==
    op = "GetSettings" =>
        /\ kpm_settings.DefaultOciRegistry =
              IF env.KPM_REG # EmptyStr THEN env.KPM_REG ELSE S_ghcr_io
        /\ kpm_settings.DefaultOciRepo =
              IF env.KPM_REPO # EmptyStr THEN env.KPM_REPO ELSE S_kcl_lang

\* TestSettingEnv at its line 175: test_reg and test_repo are returned
\* while the diagnostic of OCI_REG_PLAIN_HTTP=true is set.
C13_Witness ==
    /\ op = "GetSettings"
    /\ env.OCI_REG_PLAIN_HTTP = "true"
    /\ kpm_settings.DefaultOciRegistry = S_test_reg
    /\ kpm_settings.DefaultOciRepo = S_test_repo
    /\ kpm_settings.ErrorEvent = "UnknownEnv"


---------------------------------------------------------------------------
(* Claims about the cache lock (checked under SpecLock)                    *)

InCriticalSection(g) == gpc[g] \in {"loop", "append", "release"}

IsPrefix(s, l) == Len(s) <= Len(l) /\ SubSeq(l, 1, Len(s)) = s

\* C1: at most one contender holds the cache lock at any instant, the
\* shared list is at every instant a prefix of one of the two sequential
\* orders, and once both goroutines are done it equals one of them, so the
\* test's assertion passes.
C1_MutualExclusion ==
    /\ Cardinality(lockHolders) <= 1
    /\ Cardinality({g \in Goroutines : InCriticalSection(g)}) <= 1
    /\ \A g \in Goroutines : InCriticalSection(g) => g \in lockHolders
    /\ \/ IsPrefix(gotlist, goroutine_1_first_list)
       \/ IsPrefix(gotlist, goroutine_2_first_list)
    /\ (\A g \in Goroutines : gpc[g] = "done") =>
          gotlist \in {goroutine_1_first_list, goroutine_2_first_list}
    /\ verdict # "fail"

\* Goroutine 2 won the lock while goroutine 1 was blocked in Acquire, and
\* the test passed with goroutine 2's entries first.
C1_Witness ==
    /\ mainpc = "done"
    /\ verdict = "pass"
    /\ gotlist = goroutine_2_first_list

\* C16: under the scheduler's fairness a goroutine waiting in Acquire gets
\* the lock, both goroutines finish, and the wait returns: the test reaches
\* its end.
C16_LockProgress ==
    /\ \A g \in Goroutines : (gpc[g] = "start") ~> (g \in lockHolders)
    /\ \A g \in Goroutines : (gpc[g] = "start") ~> (gpc[g] = "done")
    /\ (mainpc = "begin") ~> (mainpc = "done" /\ lockHolders = {})

\* Goroutine 1 is blocked in Acquire while goroutine 2 holds the lock.
C16_Witness ==
    /\ gpc[1] = "start"
    /\ ~CanAcquirePackageCacheLock(1)
    /\ lockHolders = {2}


=============================================================================
